---- MODULE Spec2Model ----
(***************************************************************************)
(* Model of the three Streamlit order dashboards main.py, sample1.py and   *)
(* Sample02.py: load_data (CSV parsing, derived fields, null filling), the *)
(* sidebar filters, and the dashboard sections each script computes from   *)
(* the filtered table.  One script run (Streamlit executes the script top  *)
(* to bottom on start and on every widget change) is one action.           *)
(***************************************************************************)
EXTENDS Integers, Sequences, FiniteSets, TLC

VARIABLES variant, file, today, cache, df, sel, df_filtered, df_table,
          return_rate_by_state, outputs, executions

vars == << variant, file, today, cache, df, sel, df_filtered, df_table,
           return_rate_by_state, outputs, executions >>

(* ---------------------------------------------------------------------- *)
(* Bounds of the model                                                    *)
(* ---------------------------------------------------------------------- *)
MaxRows == 3
MaxDateRows == 2
MaxLoads == 2

(* ---------------------------------------------------------------------- *)
(* Values                                                                 *)
(* ---------------------------------------------------------------------- *)
Variants == {"main.py", "sample1.py", "Sample02.py"}

\* A missing text cell: read_csv turns an empty cell into NaN.
NaN == "NaN"

\* A cell of a numeric / object column: null, an integer, a string or a
\* monthly Period.
NullV == [k |-> "null", n |-> 0, s |-> ""]
IntV(i) == [k |-> "int", n |-> i, s |-> ""]
StrV(t) == [k |-> "str", n |-> 0, s |-> t]
PeriodV(y, m) == [k |-> "period", n |-> y * 12 + (m - 1), s |-> ""]
IsNullV(v) == v.k = "null"

\* A parsed date; NaT is the null date.
NaT == [y |-> 0, m |-> 0, d |-> 0]
Date(y, m, d) == [y |-> y, m |-> m, d |-> d]
IsNaT(t) == t.y = 0

\* A date cell of the CSV file: the text's layout and the date it spells.
\* fmt "dmy" is DD-MM-YYYY, "ymd" is YYYY-MM-DD, "bad" is text that is no
\* date, "nan" is an empty cell.
RawDate(fmt, y, m, d) == [fmt |-> fmt, y |-> y, m |-> m, d |-> d]
RawBad == [fmt |-> "bad", y |-> 0, m |-> 0, d |-> 0]
RawNaN == [fmt |-> "nan", y |-> 0, m |-> 0, d |-> 0]

(* ---------------------------------------------------------------------- *)
(* Calendar arithmetic (datetime / Timedelta)                             *)
(* ---------------------------------------------------------------------- *)
IsLeap(y) == (y % 4 = 0) /\ ((y % 100 # 0) \/ (y % 400 = 0))

DaysInMonth(y, m) ==
    IF m = 2 THEN (IF IsLeap(y) THEN 29 ELSE 28)
    ELSE IF m \in {4, 6, 9, 11} THEN 30 ELSE 31

RECURSIVE DaysBeforeMonth(_, _)
DaysBeforeMonth(y, m) ==
    IF m <= 1 THEN 0 ELSE DaysBeforeMonth(y, m - 1) + DaysInMonth(y, m - 1)

DaysBeforeYear(y) ==
    365 * (y - 1) + ((y - 1) \div 4) - ((y - 1) \div 100) + ((y - 1) \div 400)

\* Proleptic Gregorian ordinal of a date.
Ordinal(t) == DaysBeforeYear(t.y) + DaysBeforeMonth(t.y, t.m) + t.d

\* DaysBetween as it would be if an order without a delivery date were
\* counted as still under way, up to the day of the load.
DaysBetween_open(a, b) ==
    IF IsNaT(b) THEN NullV
    ELSE IF IsNaT(a) THEN IntV(Ordinal(today) - Ordinal(b))
    ELSE IntV(Ordinal(a) - Ordinal(b))

\* (a - b).dt.days: NaT on either side gives a null.
DaysBetween(a, b) ==
    IF IsNaT(a) \/ IsNaT(b) THEN NullV ELSE IntV(Ordinal(a) - Ordinal(b))

\* Tuple comparison (m1, d1) < (m2, d2).
TupleLess(m1, d1, m2, d2) == (m1 < m2) \/ (m1 = m2 /\ d1 < d2)

(* ---------------------------------------------------------------------- *)
(* pd.to_datetime                                                         *)
(* ---------------------------------------------------------------------- *)
\* pd.to_datetime(text, format=fmt, errors='coerce'): the date when the text
\* has the expected layout, NaT otherwise.
to_datetime_format(cell, fmt) ==
    IF cell.fmt = fmt THEN Date(cell.y, cell.m, cell.d) ELSE NaT

\* pd.to_datetime(text, errors='coerce') without a format: ISO text parses
\* as written; DD-MM-YYYY text is read month first unless the first number
\* cannot be a month.
to_datetime_free(cell) ==
    IF cell.fmt = "ymd" THEN Date(cell.y, cell.m, cell.d)
    ELSE IF cell.fmt = "dmy"
         THEN (IF cell.d > 12 THEN Date(cell.y, cell.m, cell.d)
               ELSE Date(cell.y, cell.d, cell.m))
         ELSE NaT

\* pd.to_datetime applied to a column that already holds datetimes: the
\* format argument is not used and the values are returned as they are.
to_datetime_again(t, fmt) == t

(* ---------------------------------------------------------------------- *)
(* Derived fields                                                         *)
(* ---------------------------------------------------------------------- *)
\* calculate_age of main.py and sample1.py.
calculate_age(born, now) ==
    IF IsNaT(born) THEN NullV
    ELSE IntV(now.y - born.y
              - (IF TupleLess(now.m, now.d, born.m, born.d) THEN 1 ELSE 0))

\* The lambda of Sample02.py.
age_lambda(dob, now) ==
    IF ~IsNaT(dob) THEN IntV(now.y - dob.y) ELSE NullV

Pad2(i) == IF i < 10 THEN "0" \o ToString(i) ELSE ToString(i)

\* str() of a monthly Period / of NaT.
PeriodStr(p) ==
    IF IsNullV(p) THEN "NaT"
    ELSE ToString(p.n \div 12) \o "-" \o Pad2((p.n % 12) + 1)

\* Series.dt.to_period('M')
to_period_M(t) == IF IsNaT(t) THEN NullV ELSE PeriodV(t.y, t.m)

\* Series.astype(str)
astype_str(v) ==
    IF v.k = "str" THEN v
    ELSE IF v.k = "int" THEN StrV(ToString(v.n))
    ELSE StrV(PeriodStr(v))

\* Series.fillna(x) on one cell
fillnaV(v, x) == IF IsNullV(v) THEN x ELSE v
fillnaS(s, x) == IF s = NaN THEN x ELSE s

(* ---------------------------------------------------------------------- *)
(* The CSV file and load_data                                             *)
(* ---------------------------------------------------------------------- *)
DateColumns == {"orderDate", "deliveryDate", "dateOfBirth", "creationDate"}

\* The columns of orders_dataset.csv.
RequiredColumns ==
    {"orderDate", "deliveryDate", "itemID", "color", "size", "manufacturerID",
     "price", "dateOfBirth", "state", "returnShipment", "creationDate"}

DerivedColumns == {"order_year_month", "delivery_delay", "customer_age"}

\* What a call of load_data hands back: a table (status "ok"), None
\* (status "none") or an exception that leaves the script (status "raised").
\* "empty" marks a cache without an entry and a script that has not run.
NoTable(st) == [status |-> st, cols |-> {}, rows |-> << >>]
Table(cols, rows) == [status |-> "ok", cols |-> cols, rows |-> rows]

\* One row of main.py's load_data: lines 18-41.
load_row_main(raw, i, now) ==
    LET orderDate == to_datetime_format(raw.orderDate, "dmy")
        deliveryDate == to_datetime_format(raw.deliveryDate, "ymd")
        dateOfBirth == to_datetime_free(raw.dateOfBirth)
    IN [index |-> i,
        orderDate |-> orderDate,
        deliveryDate |-> deliveryDate,
        dateOfBirth |-> dateOfBirth,
        creationDate |-> to_datetime_format(raw.creationDate, "dmy"),
        color |-> fillnaS(raw.color, "Unknown"),
        size |-> fillnaS(raw.size, "Unknown"),
        state |-> fillnaS(raw.state, "Unknown"),
        price |-> raw.price,
        returnShipment |-> raw.returnShipment,
        manufacturerID |-> raw.manufacturerID,
        order_year_month |-> astype_str(to_period_M(orderDate)),
        delivery_delay |-> DaysBetween(deliveryDate, orderDate),
        customer_age |-> calculate_age(dateOfBirth, now),
        age_group |-> NaN]

\* One row of sample1.py's load_data: lines 17-41.  Every date column is
\* parsed as DD-MM-YYYY; the second to_datetime of deliveryDate works on the
\* datetimes the first one produced.
load_row_sample1(raw, i, now) ==
    LET orderDate == to_datetime_format(raw.orderDate, "dmy")
        deliveryDate ==
            to_datetime_again(to_datetime_format(raw.deliveryDate, "dmy"), "ymd")
        dateOfBirth == to_datetime_format(raw.dateOfBirth, "dmy")
    IN [index |-> i,
        orderDate |-> orderDate,
        deliveryDate |-> deliveryDate,
        dateOfBirth |-> dateOfBirth,
        creationDate |-> to_datetime_format(raw.creationDate, "dmy"),
        color |-> raw.color,
        size |-> raw.size,
        state |-> raw.state,
        price |-> raw.price,
        returnShipment |-> raw.returnShipment,
        manufacturerID |-> raw.manufacturerID,
        order_year_month |-> to_period_M(orderDate),
        delivery_delay |->
            fillnaV(DaysBetween(deliveryDate, orderDate), StrV("Unknown")),
        customer_age |-> calculate_age(dateOfBirth, now),
        age_group |-> NaN]

\* One row of Sample02.py's load_data: lines 38-45.
load_row_Sample02(raw, i, now) ==
    LET orderDate == to_datetime_format(raw.orderDate, "dmy")
        deliveryDate == to_datetime_format(raw.deliveryDate, "ymd")
        dateOfBirth == to_datetime_free(raw.dateOfBirth)
    IN [index |-> i,
        orderDate |-> orderDate,
        deliveryDate |-> deliveryDate,
        dateOfBirth |-> dateOfBirth,
        creationDate |-> to_datetime_format(raw.creationDate, "dmy"),
        color |-> fillnaS(raw.color, "Unknown"),
        size |-> fillnaS(raw.size, "Unknown"),
        state |-> fillnaS(raw.state, "Unknown"),
        price |-> raw.price,
        returnShipment |-> raw.returnShipment,
        manufacturerID |-> raw.manufacturerID,
        order_year_month |-> astype_str(to_period_M(orderDate)),
        delivery_delay |-> DaysBetween(deliveryDate, orderDate),
        customer_age |-> age_lambda(dateOfBirth, now),
        age_group |-> NaN]

load_row(v, raw, i, now) ==
    IF v = "main.py" THEN load_row_main(raw, i, now)
    ELSE IF v = "sample1.py" THEN load_row_sample1(raw, i, now)
    ELSE load_row_Sample02(raw, i, now)

\* The statements of load_data raise when read_csv finds no file or when a
\* column they index is not in the file.  fillna with a dict skips the keys
\* that are no columns.
load_raises(f) == ~f.exists \/ ~(DateColumns \subseteq f.cols)

\* The body of load_data, run at date now.  main.py catches every exception
\* and returns None; sample1.py and Sample02.py let it leave the script.
load_data(v, f, now) ==
    IF load_raises(f)
    THEN (IF v = "main.py" THEN NoTable("none") ELSE NoTable("raised"))
    ELSE Table(f.cols \cup DerivedColumns,
               [i \in 1..Len(f.rows) |-> load_row(v, f.rows[i], i - 1, now)])

\* @st.cache_data: the body runs only when the cache holds no entry; a
\* returned value (None included) is stored, an exception is not.
\* cache_hit as it would be without the decorator: no call finds an entry.
cache_hit_never(c) == FALSE

cache_hit(c) == c.status # "empty"
cached_value(c, fresh) == IF cache_hit(c) THEN c ELSE fresh
cache_after(c, fresh) ==
    IF cache_hit(c) THEN c
    ELSE IF fresh.status = "raised" THEN NoTable("empty") ELSE fresh

(* ---------------------------------------------------------------------- *)
(* Sidebar filters                                                        *)
(* ---------------------------------------------------------------------- *)
Rows(t) == {t.rows[i] : i \in 1..Len(t.rows)}

\* str(order_year_month) of a row: main.py and Sample02.py keep the column
\* as text, sample1.py converts the Period column where it is used.
MonthStr(r) == astype_str(r.order_year_month).s

\* Text order of the month strings: "YYYY-MM" strings compare as their
\* months do, and "NaT" is greater than every one of them ('N' > '2').
MonthRank(r) ==
    IF IsNaT(r.orderDate) THEN 1000000 ELSE r.orderDate.y * 12 + r.orderDate.m

\* Series.max() of the month strings.
MaxMonth(t) ==
    {MonthStr(r) : r \in {q \in Rows(t) :
                             \A o \in Rows(t) : MonthRank(o) <= MonthRank(q)}}

\* The options each multiselect offers.
state_options(v, t) ==
    IF v = "sample1.py" THEN {r.state : r \in Rows(t)} \ {NaN}
    ELSE {r.state : r \in Rows(t)}
month_options(t) == {MonthStr(r) : r \in Rows(t)}
color_options(v, t) == IF v = "sample1.py" THEN {} ELSE {r.color : r \in Rows(t)}
size_options(v, t) == IF v = "sample1.py" THEN {} ELSE {r.size : r \in Rows(t)}

\* The widget values of a session's first run.
default_selection(v, t) ==
    [states |-> state_options(v, t),
     months |-> IF v = "Sample02.py" THEN month_options(t) ELSE MaxMonth(t),
     colors |-> color_options(v, t),
     sizes |-> size_options(v, t),
     show_returns_only |-> FALSE]

NoSelection ==
    [states |-> {}, months |-> {}, colors |-> {}, sizes |-> {},
     show_returns_only |-> FALSE]

\* The columns the sidebar of a script reads.
widget_columns(v) ==
    IF v = "sample1.py" THEN {"state", "order_year_month"}
    ELSE {"state", "order_year_month", "color", "size"}

\* isin as it would be if an empty selection meant "no filter".
isin_or_all(x, values) == values = {} \/ x \in values

\* Series.isin(values) on one cell.
isin(x, values) == x \in values

\* The boolean mask of the filter for one row.
filter_mask(v, r, s) ==
    IF v = "sample1.py"
    THEN isin(r.state, s.states) /\ isin(MonthStr(r), s.months)
    ELSE /\ isin(r.state, s.states)
         /\ isin(MonthStr(r), s.months)
         /\ isin(r.color, s.colors)
         /\ isin(r.size, s.sizes)

\* rows[mask]: the rows whose mask entry is True, in order, as new rows.
RECURSIVE boolean_index(_, _)
boolean_index(rows, mask) ==
    IF rows = << >> THEN << >>
    ELSE (IF Head(mask) THEN << Head(rows) >> ELSE << >>)
         \o boolean_index(Tail(rows), Tail(mask))

apply_filter(v, t, s) ==
    Table(t.cols,
          boolean_index(t.rows,
                        [i \in 1..Len(t.rows) |-> filter_mask(v, t.rows[i], s)]))

(* ---------------------------------------------------------------------- *)
(* Aggregations of the dashboard sections                                 *)
(* ---------------------------------------------------------------------- *)
age_bins == << 0, 30, 45, 60, 100 >>
age_labels == << "18-30", "31-45", "46-60", "60+" >>

\* pd.cut(x, bins, labels, right=False) on one value: the label of the
\* interval [bins[i], bins[i+1]) holding x, NaN when no interval does.
cut(x, bins, labels) ==
    LET hit == {i \in 1..(Len(bins) - 1) : bins[i] <= x /\ x < bins[i + 1]}
    IN IF hit = {} THEN NaN ELSE labels[CHOOSE i \in hit : TRUE]

\* The age_group of one row: lines 185-190 of main.py, 191-196 of sample1.py.
age_group_of(age) ==
    cut(fillnaV(age, IntV(-1)).n, << -1 >> \o age_bins, << "Unknown" >> \o age_labels)

\* assign_age_group as it would be if df_filtered were a view of df: the
\* column would be written into the rows of df that passed the filter.
assign_age_group_view(base, filtered) ==
    LET kept == {filtered.rows[i].index : i \in 1..Len(filtered.rows)}
        grouped(rows) ==
            [i \in 1..Len(rows) |->
                IF rows[i].index \in kept
                THEN [rows[i] EXCEPT !.age_group = age_group_of(rows[i].customer_age)]
                ELSE rows[i]]
    IN [df |-> Table(base.cols \cup {"age_group"}, grouped(base.rows)),
        df_filtered |-> Table(filtered.cols \cup {"age_group"}, grouped(filtered.rows))]

\* df_filtered['age_group'] = ...: df_filtered is the new table the boolean
\* index made, so the column is added to it and df stays as it is.
assign_age_group(base, filtered) ==
    [df |-> base,
     df_filtered |->
        Table(filtered.cols \cup {"age_group"},
              [i \in 1..Len(filtered.rows) |->
                  [filtered.rows[i] EXCEPT
                      !.age_group = age_group_of(filtered.rows[i].customer_age)]])]

RECURSIVE SumFlags(_)
SumFlags(rows) ==
    IF rows = << >> THEN 0 ELSE Head(rows).returnShipment + SumFlags(Tail(rows))

\* group_keys as it would be if every state of the loaded table got a
\* group, the states that the filter removed included.
group_keys_all(t) == ({r.state : r \in Rows(t)} \cup {r.state : r \in Rows(df)}) \ {NaN}

\* groupby('state'): the groups are the non-null keys present in the table.
group_keys(t) == {r.state : r \in Rows(t)} \ {NaN}
RECURSIVE group_rows(_, _)
group_rows(rows, key) ==
    IF rows = << >> THEN << >>
    ELSE (IF Head(rows).state = key THEN << Head(rows) >> ELSE << >>)
         \o group_rows(Tail(rows), key)

\* groupby('state')['returnShipment'].mean() * 100, each value kept as the
\* exact fraction num / den.
return_rate(t) ==
    [key \in group_keys(t) |->
        [num |-> 100 * SumFlags(group_rows(t.rows, key)),
         den |-> Len(group_rows(t.rows, key))]]

NoRates == [key \in {} |-> [num |-> 0, den |-> 1]]

MaxPrice(t) == CHOOSE p \in {r.price : r \in Rows(t)} :
                  \A q \in {r.price : r \in Rows(t)} : q <= p

\* The price / returns filter of sample1.py's detail table, lines 225-235,
\* with the number inputs at the values they start with.
table_mask(r, min_price, max_price, show_returns_only) ==
    /\ min_price <= r.price /\ r.price <= max_price
    /\ (IF show_returns_only THEN r.returnShipment = 1 ELSE TRUE)

table_filter(t, show_returns_only) ==
    IF t.rows = << >> THEN t
    ELSE Table(t.cols,
               boolean_index(t.rows,
                  [i \in 1..Len(t.rows) |->
                      table_mask(t.rows[i], 0, MaxPrice(t), show_returns_only)]))

(* ---------------------------------------------------------------------- *)
(* Dashboard sections                                                     *)
(* ---------------------------------------------------------------------- *)
ForecastMinDates == 30

\* The outputs each script computes, in the order it computes them.
Sections(v) ==
    IF v = "Sample02.py"
    THEN << "metrics", "color_chart", "size_chart", "manufacturer_chart",
            "delivery_chart", "return_rate", "forecast", "prediction", "table" >>
    ELSE << "metrics", "color_chart", "size_chart", "manufacturer_chart",
            "delivery_chart", "return_rate", "age_chart", "table" >>

AllSections ==
    {"metrics", "color_chart", "size_chart", "manufacturer_chart",
     "delivery_chart", "return_rate", "age_chart", "forecast", "prediction",
     "table"}

\* The columns a section indexes: a column that is not there is a KeyError.
section_columns(v, sec) ==
    IF sec = "metrics" THEN {"price", "returnShipment"}
    ELSE IF sec = "color_chart" THEN {"color"}
    ELSE IF sec = "size_chart" THEN {"size"}
    ELSE IF sec = "manufacturer_chart" THEN {"manufacturerID", "price"}
    ELSE IF sec = "delivery_chart"
         THEN (IF v = "sample1.py"
               THEN {"deliveryDate", "orderDate", "delivery_delay"}
               ELSE {"delivery_delay", "orderDate"})
    ELSE IF sec = "return_rate" THEN {"state", "returnShipment"}
    ELSE IF sec = "age_chart" THEN {"customer_age"}
    ELSE IF sec = "forecast" THEN {"orderDate"}
    ELSE IF sec = "prediction"
         THEN {"price", "delivery_delay", "customer_age", "returnShipment"}
    ELSE IF v = "main.py"
         THEN {"orderDate", "color", "size", "manufacturerID", "price", "state",
               "returnShipment"}
    ELSE IF v = "sample1.py"
         THEN {"orderDate", "deliveryDate", "itemID", "color", "size",
               "manufacturerID", "price", "state", "returnShipment"}
    ELSE {}

\* groupby('orderDate').size(): one row per order date present.
forecast_rows(t) == Cardinality({r.orderDate : r \in Rows(t)} \ {NaT})

\* dropna(subset=features + ['returnShipment'])
model_rows(t) ==
    Cardinality({r.index : r \in {q \in Rows(t) :
                    ~IsNullV(q.delivery_delay) /\ ~IsNullV(q.customer_age)}})

\* train_test_split(test_size=0.2): the training set has floor(0.8 n) rows.
train_size(n) == (8 * n) \div 10

\* Whether computing a section raises.  Sample02.py's forecast branch uses
\* the name plotly, which the script never binds; train_test_split raises
\* on an empty training set.
section_raises(v, sec, t) ==
    \/ ~(section_columns(v, sec) \subseteq t.cols)
    \/ v = "Sample02.py" /\ sec = "forecast" /\ forecast_rows(t) > ForecastMinDates
    \/ v = "Sample02.py" /\ sec = "prediction" /\ train_size(model_rows(t)) = 0

\* Only sample1.py wraps each section in try / except.
section_guarded(v, sec) == v = "sample1.py"

\* Run the sections from position i on.  An exception of a guarded section
\* is shown as that section's error; an exception of an unguarded one ends
\* the script, and the sections behind it are not computed.
RECURSIVE run_sections(_, _, _, _)
run_sections(v, t, i, stopped) ==
    IF i > Len(Sections(v)) THEN << >>
    ELSE LET sec == Sections(v)[i]
             fails == ~stopped /\ section_raises(v, sec, t)
             status == IF stopped THEN "none"
                       ELSE IF fails THEN "error" ELSE "ok"
         IN << status >>
            \o run_sections(v, t, i + 1,
                            stopped \/ (fails /\ ~section_guarded(v, sec)))

NoOutputs == [sec \in AllSections |-> "none"]

section_index(v, sec) ==
    IF \E i \in 1..Len(Sections(v)) : Sections(v)[i] = sec
    THEN CHOOSE i \in 1..Len(Sections(v)) : Sections(v)[i] = sec
    ELSE 0

outputs_of(v, t) ==
    LET st == run_sections(v, t, 1, FALSE)
    IN [sec \in AllSections |->
           IF section_index(v, sec) = 0 THEN "none" ELSE st[section_index(v, sec)]]

(* ---------------------------------------------------------------------- *)
(* One run of a script                                                    *)
(* ---------------------------------------------------------------------- *)
NotRendered(loaded, s) ==
    [df |-> loaded, sel |-> s,
     df_filtered |-> NoTable("empty"), df_table |-> NoTable("empty"),
     rates |-> NoRates, outputs |-> NoOutputs]

\* The script from the line behind df = load_data() to its end.  loaded is
\* what load_data returned, s the widget values of the run.
script(v, loaded, s) ==
    IF loaded.status # "ok" THEN NotRendered(loaded, s)
    ELSE IF ~(widget_columns(v) \subseteq loaded.cols) THEN NotRendered(loaded, s)
    ELSE LET f == apply_filter(v, loaded, s)
             out == outputs_of(v, f)
             aged == IF out["age_chart"] = "ok"
                     THEN assign_age_group(loaded, f)
                     ELSE [df |-> loaded, df_filtered |-> f]
         IN [df |-> aged.df,
             sel |-> s,
             df_filtered |-> aged.df_filtered,
             df_table |-> IF v = "sample1.py" /\ out["table"] = "ok"
                          THEN table_filter(aged.df_filtered, s.show_returns_only)
                          ELSE NoTable("empty"),
             rates |-> IF out["return_rate"] = "ok" THEN return_rate(f) ELSE NoRates,
             outputs |-> out]

Rendered(t) == t.status = "ok" /\ widget_columns(variant) \subseteq t.cols

\* The widget values of a run: the defaults in the first run of a session,
\* the values s the widgets hold in a later one.
widget_values(first, loaded, s) ==
    IF first /\ Rendered(loaded) THEN default_selection(variant, loaded) ELSE s

\* A whole run: df = load_data() through the cache, then the script.
Run(first, s) ==
    /\ cache_hit(cache) \/ Len(executions) < MaxLoads
    /\ LET fresh == load_data(variant, file, today)
           loaded == cached_value(cache, fresh)
           res == script(variant, loaded, widget_values(first, loaded, s))
       IN /\ cache' = cache_after(cache, fresh)
          /\ executions' = IF cache_hit(cache) THEN executions
                           ELSE Append(executions, [now |-> today, result |-> fresh])
          /\ df' = res.df
          /\ sel' = res.sel
          /\ df_filtered' = res.df_filtered
          /\ df_table' = res.df_table
          /\ return_rate_by_state' = res.rates
          /\ outputs' = res.outputs
    /\ UNCHANGED << variant, file, today >>

\* The first run of a session: every widget has its default value.
Start ==
    /\ df.status = "empty"
    /\ Run(TRUE, sel)

\* The user changes one sidebar multiselect, and Streamlit reruns the script.
ChangeWidget ==
    /\ Rendered(df)
    /\ \E w \in {"states", "months", "colors", "sizes"} :
         \E values \in SUBSET (IF w = "states" THEN state_options(variant, df)
                               ELSE IF w = "months" THEN month_options(df)
                               ELSE IF w = "colors" THEN color_options(variant, df)
                               ELSE size_options(variant, df)) :
            Run(FALSE, [sel EXCEPT ![w] = values])

\* The user ticks or unticks "Show Returns Only" (sample1.py).
ToggleReturnsOnly ==
    /\ Rendered(df)
    /\ variant = "sample1.py"
    /\ outputs["table"] = "ok"
    /\ Run(FALSE, [sel EXCEPT !.show_returns_only = ~sel.show_returns_only])

\* A rerun with the widgets as they are.
Rerun ==
    /\ df.status # "empty"
    /\ Run(FALSE, sel)

\* The user clears the cache of st.cache_data.
ClearCache ==
    /\ cache_hit(cache)
    /\ Len(executions) < MaxLoads
    /\ cache' = NoTable("empty")
    /\ UNCHANGED << variant, file, today, df, sel, df_filtered, df_table,
                    return_rate_by_state, outputs, executions >>

(* ---------------------------------------------------------------------- *)
(* Input files and dates                                                  *)
(* ---------------------------------------------------------------------- *)
Todays == {Date(2024, 6, 14), Date(2024, 6, 16)}
LastDay == Date(2024, 6, 16)

\* The calendar moves on.
Tick ==
    /\ \E t \in Todays : Ordinal(t) > Ordinal(today) /\ today' = t
    /\ UNCHANGED << variant, file, cache, df, sel, df_filtered, df_table,
                    return_rate_by_state, outputs, executions >>

RawRow(o, dl, dob, st, c, sz, p, ret, mf) ==
    [orderDate |-> o, deliveryDate |-> dl, dateOfBirth |-> dob,
     creationDate |-> RawDate("dmy", 2024, 1, 1),
     state |-> st, color |-> c, size |-> sz,
     price |-> p, returnShipment |-> ret, manufacturerID |-> mf]

\* Rows that differ in their dates.
DateRows ==
    << RawRow(RawDate("dmy", 2024, 1, 10), RawDate("ymd", 2024, 1, 15),
              RawDate("ymd", 2000, 6, 15), "DE", "red", "M", 10, 1, 1),
       RawRow(RawDate("dmy", 2024, 1, 10), RawDate("ymd", 2024, 1, 5),
              RawNaN, "DE", "red", "M", 10, 0, 1),
       RawRow(RawBad, RawNaN,
              RawDate("ymd", 1994, 1, 1), "DE", "red", "M", 10, 1, 1),
       RawRow(RawDate("dmy", 2024, 1, 20), RawDate("dmy", 2024, 1, 22),
              RawDate("dmy", 2000, 6, 15), "DE", "red", "M", 10, 1, 1) >>

\* Rows that differ in state, colour, size and return flag.
CategoryRows ==
    << RawRow(RawDate("dmy", 2024, 1, 10), RawDate("ymd", 2024, 1, 15),
              RawDate("ymd", 1994, 1, 1), "DE", "red", "M", 10, 1, 1),
       RawRow(RawDate("dmy", 2024, 1, 11), RawDate("ymd", 2024, 1, 15),
              RawDate("ymd", 1979, 1, 1), "DE", NaN, "M", 20, 0, 2),
       RawRow(RawDate("dmy", 2024, 2, 1), RawDate("ymd", 2024, 2, 3),
              RawNaN, "FR", "red", NaN, 30, 1, 1) >>

\* The files of at most n rows drawn from pool; rows come in pool order,
\* no claim depends on the order of the rows of the file.
Files(pool, n) ==
    UNION {{[i \in 1..k |-> pool[ix[i]]] :
               ix \in {jx \in [1..k -> 1..Len(pool)] :
                          \A a, b \in 1..k : a < b => jx[a] <= jx[b]}}
           : k \in 1..n}

\* A file with more than ForecastMinDates order dates.
BigFile ==
    [i \in 1..(ForecastMinDates + 1) |->
        RawRow(RawDate("dmy", 2024, 1, i), RawDate("ymd", 2024, 2, 1),
               RawDate("ymd", 1994, 1, 1), "DE", "red", "M", 10, i % 2, 1)]

SmallFile == << CategoryRows[1], CategoryRows[2] >>

CsvFile(rows) == [exists |-> TRUE, cols |-> RequiredColumns, rows |-> rows]

InitRest ==
    /\ variant \in Variants
    /\ cache = NoTable("empty")
    /\ df = NoTable("empty")
    /\ sel = NoSelection
    /\ df_filtered = NoTable("empty")
    /\ df_table = NoTable("empty")
    /\ return_rate_by_state = NoRates
    /\ outputs = NoOutputs
    /\ executions = << >>

\* Files whose date cells vary, read on either day.
InitDates ==
    /\ file \in {CsvFile(rows) : rows \in Files(DateRows, MaxDateRows)}
    /\ today \in Todays
    /\ InitRest

\* Files whose categories vary.
InitCategories ==
    /\ file \in {CsvFile(rows) : rows \in Files(CategoryRows, MaxRows) \cup {BigFile}}
    /\ today = LastDay
    /\ InitRest

\* No file at all, and files that lack one column.
InitColumns ==
    /\ file \in {[exists |-> FALSE, cols |-> {}, rows |-> << >>]}
                \cup {[exists |-> TRUE, cols |-> RequiredColumns \ {c},
                       rows |-> SmallFile] : c \in RequiredColumns}
    /\ today = LastDay
    /\ InitRest

Init == InitDates \/ InitCategories \/ InitColumns

\* One browser session of one script.
Next ==
    \/ Start
    \/ ChangeWidget
    \/ ToggleReturnsOnly
    \/ Rerun

Spec == Init /\ [][Next]_vars

\* A session in which days pass and the user clears the cache.
NextReload ==
    \/ Start
    \/ ChangeWidget
    \/ ToggleReturnsOnly
    \/ Rerun
    \/ ClearCache
    \/ Tick

SpecReload == InitDates /\ [][NextReload]_vars

(* ---------------------------------------------------------------------- *)
(* Properties                                                             *)
(* ---------------------------------------------------------------------- *)
\* The age on day now of someone born on day born, by the birthday of the
\* year of now.
BirthdayAge(born, now) ==
    now.y - born.y
    - (IF Ordinal(now) < Ordinal(Date(now.y, born.m, born.d)) THEN 1 ELSE 0)

\* C1: in every variant, after load_data, customer_age of a record with a
\* date of birth is the birthday-aware age on the current date, and it is
\* null exactly when the date of birth is null.
C1_AgeBirthdayAware ==
    df.status = "ok" =>
        \A r \in Rows(df) :
            /\ IsNullV(r.customer_age) <=> IsNaT(r.dateOfBirth)
            /\ ~IsNaT(r.dateOfBirth) =>
                   r.customer_age = IntV(BirthdayAge(r.dateOfBirth, today))

\* C2: in every variant, after load_data, delivery_delay is null when the
\* order date or the delivery date is null, and otherwise the number of days
\* from the order date to the delivery date, negative numbers included.
C2_DelayNullPropagated ==
    df.status = "ok" =>
        \A r \in Rows(df) :
            IF IsNaT(r.orderDate) \/ IsNaT(r.deliveryDate)
            THEN r.delivery_delay = NullV
            ELSE r.delivery_delay = IntV(Ordinal(r.deliveryDate) - Ordinal(r.orderDate))

\* C3: in every variant, after load_data, no record has a null color, size
\* or state: a missing value has become "Unknown", any other value is as
\* read.
C3_NoNullCategories ==
    (df.status = "ok" /\ {"color", "size", "state"} \subseteq df.cols) =>
        \A i \in 1..Len(df.rows) :
            /\ df.rows[i].color = fillnaS(file.rows[i].color, "Unknown")
            /\ df.rows[i].size = fillnaS(file.rows[i].size, "Unknown")
            /\ df.rows[i].state = fillnaS(file.rows[i].state, "Unknown")
            /\ NaN \notin {df.rows[i].color, df.rows[i].size, df.rows[i].state}

\* Whether a record's value for every filtered field is in the accepted set
\* of that field.
Accepted(r) ==
    /\ r.state \in sel.states
    /\ MonthStr(r) \in sel.months
    /\ variant # "sample1.py" => (r.color \in sel.colors /\ r.size \in sel.sizes)

AcceptedSets ==
    IF variant = "sample1.py" THEN {sel.states, sel.months}
    ELSE {sel.states, sel.months, sel.colors, sel.sizes}

\* C4: df_filtered holds exactly the records of df whose value for every
\* filtered field is in that field's accepted set, each once and as loaded;
\* if one accepted set is empty, df_filtered is empty.
C4_FilterExact ==
    df_filtered.status = "ok" =>
        LET kept == {r.index : r \in Rows(df_filtered)}
        IN /\ \A r \in Rows(df) : (r.index \in kept) <=> Accepted(r)
           /\ \A r \in Rows(df_filtered) :
                 [r EXCEPT !.age_group = NaN] = df.rows[r.index + 1]
           /\ Len(df_filtered.rows) = Cardinality(kept)
           /\ ({} \in AcceptedSets) => df_filtered.rows = << >>

\* A run in which exactly one accepted set, the colours, is empty although
\* records pass the state and month filters.
C4_Witness ==
    /\ df_filtered.status = "ok"
    /\ variant = "main.py"
    /\ sel.colors = {} /\ sel.sizes # {}
    /\ \E r \in Rows(df) : r.state \in sel.states /\ MonthStr(r) \in sel.months
    /\ df_filtered.rows = << >>

\* C5: the age bucket of a null customer_age is "Unknown", and a boundary
\* age is in the lower bucket: 30 in "18-30", 45 in "31-45", 60 in "46-60",
\* and 61 in "60+".
C5_AgeBuckets ==
    (df_filtered.status = "ok" /\ "age_group" \in df_filtered.cols) =>
        \A r \in Rows(df_filtered) :
            /\ IsNullV(r.customer_age) => r.age_group = "Unknown"
            /\ r.customer_age = IntV(30) => r.age_group = "18-30"
            /\ r.customer_age = IntV(45) => r.age_group = "31-45"
            /\ r.customer_age = IntV(60) => r.age_group = "46-60"
            /\ r.customer_age = IntV(61) => r.age_group = "60+"

\* The records of the filtered set with the given state.
StateRecords(st) == {r \in Rows(df_filtered) : r.state = st}

\* C6: the return rate by state has one entry for each state that occurs in
\* the filtered set and no other entry, each 100 times the mean return flag
\* of the state's filtered records; states DE, DE, FR with flags 1, 0, 1
\* filtered to DE give 50 for DE and no entry for FR; an empty filtered set
\* gives an empty mapping and no error.
C6_ReturnRateByState ==
    /\ outputs["return_rate"] = "ok" =>
          /\ DOMAIN return_rate_by_state = {r.state : r \in Rows(df_filtered)}
          /\ \A st \in DOMAIN return_rate_by_state :
                /\ return_rate_by_state[st].den = Cardinality({r.index : r \in StateRecords(st)})
                /\ return_rate_by_state[st].den > 0
                /\ return_rate_by_state[st].num =
                      100 * Cardinality({r.index : r \in {q \in StateRecords(st) :
                                                             q.returnShipment = 1}})
          /\ ( /\ [i \in 1..Len(df.rows) |-> df.rows[i].state] = << "DE", "DE", "FR" >>
               /\ [i \in 1..Len(df.rows) |-> df.rows[i].returnShipment] = << 1, 0, 1 >>
               /\ {r.index : r \in Rows(df_filtered)} = {0, 1} )
             => ( /\ return_rate_by_state["DE"].num = 50 * return_rate_by_state["DE"].den
                  /\ "FR" \notin DOMAIN return_rate_by_state )
    /\ ( /\ df_filtered.status = "ok"
         /\ df_filtered.rows = << >>
         /\ RequiredColumns \subseteq file.cols )
       => (outputs["return_rate"] = "ok" /\ DOMAIN return_rate_by_state = {})

\* States DE, DE, FR with flags 1, 0, 1, filtered to DE: the rate of DE is
\* 50 and FR has no entry.
C6_Witness ==
    /\ outputs["return_rate"] = "ok"
    /\ [i \in 1..Len(df.rows) |-> df.rows[i].state] = << "DE", "DE", "FR" >>
    /\ [i \in 1..Len(df.rows) |-> df.rows[i].returnShipment] = << 1, 0, 1 >>
    /\ sel.states = {"DE"}
    /\ {r.index : r \in Rows(df_filtered)} = {0, 1}
    /\ DOMAIN return_rate_by_state = {"DE"}
    /\ return_rate_by_state["DE"] = [num |-> 100, den |-> 2]

\* C7: in every variant, an output whose computation fails reports its
\* error and every output behind it is still computed.
C7_FailuresIsolated ==
    \A i, j \in 1..Len(Sections(variant)) :
        (i < j /\ outputs[Sections(variant)[i]] = "error")
            => outputs[Sections(variant)[j]] # "none"

\* C8: in every variant, a file that is missing or lacks a required column
\* makes the load fail, with no table and no dashboard output; a date value
\* that does not parse never makes it fail, and every record is loaded.
C8_LoadFatalOnBadFile ==
    df.status # "empty" =>
        IF ~file.exists \/ ~(RequiredColumns \subseteq file.cols)
        THEN df.status \in {"none", "raised"} /\ outputs = NoOutputs
        ELSE df.status = "ok" /\ Len(df.rows) = Len(file.rows)

DerivedFields(r) == << r.order_year_month, r.delivery_delay, r.customer_age >>

\* C9: two executions of load_data on the same file, at any two points in
\* time, give every record the same derived fields.
C9_LoadDeterministic ==
    \A i, j \in 1..Len(executions) :
        \A k \in 1..Len(executions[i].result.rows) :
            DerivedFields(executions[i].result.rows[k])
                = DerivedFields(executions[j].result.rows[k])

\* C9 as amended: two executions of load_data on the same file give every
\* record the same order_year_month and delivery_delay, and the same
\* customer_age when both run on the same date.
C9_DeterministicOnSameDate ==
    \A i, j \in 1..Len(executions) :
        /\ Len(executions[i].result.rows) = Len(executions[j].result.rows)
        /\ \A k \in 1..Len(executions[i].result.rows) :
              LET a == executions[i].result.rows[k]
                  b == executions[j].result.rows[k]
              IN /\ a.order_year_month = b.order_year_month
                 /\ a.delivery_delay = b.delivery_delay
                 /\ executions[i].now = executions[j].now
                        => a.customer_age = b.customer_age

\* load_data ran twice, once before and once after a birthday, on a file
\* with a record that has no delivery date.
C9_Witness ==
    /\ Len(executions) = 2
    /\ executions[1].now # executions[2].now
    /\ \E k \in 1..Len(executions[1].result.rows) :
          executions[1].result.rows[k].customer_age
              # executions[2].result.rows[k].customer_age
    /\ \E k \in 1..Len(executions[2].result.rows) :
          /\ IsNaT(executions[2].result.rows[k].deliveryDate)
          /\ ~IsNaT(executions[2].result.rows[k].orderDate)

\* C10: once load_data has returned a table, no filter selection and no
\* render changes df.
C10_BaseUnchanged == [][df.status = "ok" => df' = df]_vars

\* A render that added age_group to the filtered set and applied the
\* returns-only table filter, with df as loaded.
C10_Witness ==
    /\ df.status = "ok"
    /\ "age_group" \in df_filtered.cols
    /\ "age_group" \notin df.cols
    /\ sel.show_returns_only
    /\ df_table.status = "ok"
    /\ Len(df_table.rows) < Len(df_filtered.rows)
    /\ Len(df_filtered.rows) < Len(df.rows)

\* The rows of a filtered table without the age_group a render added.
AsLoaded(rows) == [i \in 1..Len(rows) |-> [rows[i] EXCEPT !.age_group = NaN]]

\* C11: once load_data has returned the record collection, its body runs
\* again only after the cache was cleared: every other step, filter changes
\* included, leaves the cache and the list of executions of the body as
\* they are; a cache without entry beside a loaded df comes from clearing
\* it; and the filtered view after a step is the filter of the cached
\* collection by the current selections.
C11_ParsedOncePerCacheEntry ==
    [][ /\ (cache.status = "ok" /\ ~ClearCache)
            => (cache' = cache /\ executions' = executions)
        /\ (cache'.status = "empty" /\ df'.status = "ok")
            => (ClearCache \/ (cache.status = "empty" /\ df' = df
                                  /\ executions' = executions))
        /\ (cache'.status = "ok" /\ df_filtered'.status = "ok" /\ ~ClearCache /\ df' # df)
            => df' = cache'
        /\ (cache'.status = "ok" /\ df_filtered'.status = "ok")
            => AsLoaded(df_filtered'.rows)
                 = SelectSeq(cache'.rows,
                             LAMBDA r : /\ r.state \in sel'.states
                                        /\ MonthStr(r) \in sel'.months
                                        /\ variant # "sample1.py" =>
                                              (r.color \in sel'.colors
                                               /\ r.size \in sel'.sizes))
      ]_vars

\* The cache was cleared once, the body of load_data ran a second time, and
\* a later change of the state filter used the cached collection.
C11_Witness ==
    /\ Len(executions) = 2
    /\ cache.status = "ok"
    /\ df = cache
    /\ sel.states = {}
    /\ sel.months # {}
    /\ df_filtered.status = "ok"
    /\ df_filtered.rows = << >>

\* The date a cell spells when its text has the layout fmt, NaT otherwise.
Spelled(cell, fmt) == IF cell.fmt = fmt THEN Date(cell.y, cell.m, cell.d) ELSE NaT

\* C12: in every variant, load_data reads orderDate and creationDate as
\* day-month-year and deliveryDate as year-month-day, each giving the date
\* the text spells, reads dateOfBirth in either layout, and gives a null
\* for a text that does not have its column's layout, for that field only.
C12_DateFormatPerColumn ==
    df.status = "ok" =>
        \A i \in 1..Len(df.rows) :
            /\ df.rows[i].orderDate = Spelled(file.rows[i].orderDate, "dmy")
            /\ df.rows[i].creationDate = Spelled(file.rows[i].creationDate, "dmy")
            /\ df.rows[i].deliveryDate = Spelled(file.rows[i].deliveryDate, "ymd")
            /\ IsNaT(df.rows[i].dateOfBirth)
                  <=> file.rows[i].dateOfBirth.fmt \notin {"dmy", "ymd"}

\* C13: in every variant, a record without a parsed order date has a null
\* order_year_month after load, offers no month to the month filter and is
\* never the default month; every other record has the year and month of
\* its order date.
C13_NullOrderMonth ==
    df.status = "ok" =>
        \A r \in Rows(df) :
            IF IsNaT(r.orderDate)
            THEN /\ IsNullV(r.order_year_month)
                 /\ Rendered(df) =>
                       /\ MonthStr(r) \notin month_options(df)
                       /\ MonthStr(r) \notin default_selection(variant, df).months
            ELSE MonthStr(r) = ToString(r.orderDate.y) \o "-" \o Pad2(r.orderDate.m)

====
